---- MODULE Spec2Model ----
(***************************************************************************)
(* The AMPL language server (src/server/tool/server.py): the per-document  *)
(* symbol index kept in ls.index_, the document lifecycle handlers that    *)
(* (re)build it, and the navigation handlers that read it; the value       *)
(* classifier of ampl_utils/ampl_types.py; and the tool runner of          *)
(* src/bundled/tool/ampl_lsp.py with the class-level settings it reads.    *)
(*                                                                         *)
(* Text is modelled character by character: a line is a sequence of        *)
(* one-character strings, a document a sequence of lines. Columns are      *)
(* zero-based as in the protocol; column c of line s is s[c + 1]. Lines    *)
(* carry no line terminator: no pattern of the program matches one.        *)
(***************************************************************************)
EXTENDS Integers, Sequences, FiniteSets, TLC

\* Longest document, in lines, the editor delivers.
MaxLines == 2

\* Largest cursor column a query carries.
MaxCol == 11

-----------------------------------------------------------------------------
(* Characters and the character classes of Python's re module.             *)

Lower ==
    {"a","b","c","d","e","f","g","h","i","j","k","l","m",
     "n","o","p","q","r","s","t","u","v","w","x","y","z"}

Upper ==
    {"A","B","C","D","E","F","G","H","I","J","K","L","M",
     "N","O","P","Q","R","S","T","U","V","W","X","Y","Z"}

Digit ==
    {"0","1","2","3","4","5","6","7","8","9"}

\* \w
WordChar == Lower \cup Upper \cup Digit \cup {"_"}

\* \s
Space == {" ", "\t"}

\* [a-zA-Z_] and [a-zA-Z0-9_]
IdentStart == Lower \cup Upper \cup {"_"}

\* The column just past the longest run of characters of cls that starts at
\* column c of s (c itself when there is none): a greedy cls*.
RunEnd(s, c, cls) ==
    CHOOSE e \in c..Len(s) :
        /\ \A k \in c..(e - 1) : s[k + 1] \in cls
        /\ (e = Len(s) \/ s[e + 1] \notin cls)

\* The column where the run of characters of cls that ends just before
\* column c of s begins (c itself when there is none).
RunStart(s, c, cls) ==
    CHOOSE b \in 0..c :
        /\ \A k \in b..(c - 1) : s[k + 1] \in cls
        /\ (b = 0 \/ s[b] \notin cls)

\* s[b:e], Python's slice of columns b..e-1.
Slice(s, b, e) == SubSeq(s, b + 1, e)

\* A literal pattern: each element of pat is the set of characters allowed
\* at that place. Whether pat matches s at column c.
MatchesAt(s, c, pat) ==
    /\ c + Len(pat) <= Len(s)
    /\ \A k \in 1..Len(pat) : s[c + k] \in pat[k]

\* The pattern of a literal text.
Lit(str) == [k \in 1..Len(str) |-> {str[k]}]

-----------------------------------------------------------------------------
(* The pattern grammar. A match is a record: ok, the captured name, the    *)
(* columns [start, end) of the capture, and the columns [mstart, mend) of  *)
(* the whole match.                                                         *)

NoMatch ==
    [ok |-> FALSE, name |-> <<>>, start |-> 0, end |-> 0, mstart |-> 0, mend |-> 0]

Match(line, b, e, mb, me) ==
    [ok |-> TRUE, name |-> Slice(line, b, e), start |-> b, end |-> e,
     mstart |-> mb, mend |-> me]

\* ^<kw>([first]\w+)\(  matched at the start of line, kw a literal that ends
\* in the separating blank. \w+ is greedy, and giving characters back never
\* helps: the character after a shorter run is a word character, not "(".
LedCallMatch(line, kw, first) ==
    LET b == Len(kw)
        e == RunEnd(line, b + 1, WordChar)
    IN  IF /\ MatchesAt(line, 0, Lit(kw))
           /\ b < Len(line)
           /\ line[b + 1] \in first
           /\ e > b + 1
           /\ e < Len(line)
           /\ line[e + 1] = "("
        THEN Match(line, b, e, 0, e + 1)
        ELSE NoMatch

\* Function.regex: ^function ([a-z]\w+)\(
FunctionMatch(line) ==
    LedCallMatch(line, <<"f","u","n","c","t","i","o","n"," ">>, Lower)

\* AMPLType.regex: ^type ([A-Z]\w+)\(
TypeMatch(line) ==
    LedCallMatch(line, <<"t","y","p","e"," ">>, Upper)

\* The alternatives of the variable pattern's first group, in its order:
\* arc|maximize|minimize|node|param|set|function|subj to|s\.t\.|subject\sto|var
DeclarationKeywords ==
    << Lit(<<"a","r","c">>),
       Lit(<<"m","a","x","i","m","i","z","e">>),
       Lit(<<"m","i","n","i","m","i","z","e">>),
       Lit(<<"n","o","d","e">>),
       Lit(<<"p","a","r","a","m">>),
       Lit(<<"s","e","t">>),
       Lit(<<"f","u","n","c","t","i","o","n">>),
       Lit(<<"s","u","b","j"," ","t","o">>),
       Lit(<<"s",".","t",".">>),
       Lit(<<"s","u","b","j","e","c","t">>) \o <<Space>> \o Lit(<<"t","o">>),
       Lit(<<"v","a","r">>) >>

\* The character class of the lookahead (?![if|and|or]).
LookaheadClass == {"i", "f", "|", "a", "n", "d", "o", "r"}

\* VariableRest with the columns of the whole match taken for those of the
\* name group (match.start() for match.start(2)).
VariableRestWholeMatch(line, c) ==
    IF /\ c + 1 < Len(line)
       /\ line[c + 1] \in Space
       /\ line[c + 2] \notin LookaheadClass
       /\ line[c + 2] \in IdentStart
    THEN [ok |-> TRUE,
          name |-> Slice(line, c + 1, RunEnd(line, c + 1, IdentStart \cup Digit)),
          start |-> 0, end |-> RunEnd(line, c + 1, IdentStart \cup Digit),
          mstart |-> 0, mend |-> RunEnd(line, c + 1, IdentStart \cup Digit)]
    ELSE NoMatch

\* The rest of the variable pattern after a keyword that ends at column c:
\* \s(?![if|and|or])([a-zA-Z_][a-zA-Z0-9_]*)
VariableRest(line, c) ==
    IF /\ c + 1 < Len(line)
       /\ line[c + 1] \in Space
       /\ line[c + 2] \notin LookaheadClass
       /\ line[c + 2] \in IdentStart
    THEN Match(line, c + 1, RunEnd(line, c + 1, IdentStart \cup Digit),
               0, RunEnd(line, c + 1, IdentStart \cup Digit))
    ELSE NoMatch

\* Variable.regex, matched at the start of line: the first alternative, in
\* the pattern's order, after which the rest matches.
VariableMatch(line) ==
    LET hits == {k \in 1..Len(DeclarationKeywords) :
                    /\ MatchesAt(line, 0, DeclarationKeywords[k])
                    /\ VariableRest(line, Len(DeclarationKeywords[k])).ok}
    IN  IF hits = {}
        THEN NoMatch
        ELSE LET k == CHOOSE h \in hits : \A g \in hits : h <= g
             IN  VariableRest(line, Len(DeclarationKeywords[k]))

\* Argument.regex tried at column c: (?P<name>\w+): (?P<type>\w+)
ArgumentMatchAt(line, c) ==
    LET e == RunEnd(line, c, WordChar)
        f == RunEnd(line, e + 2, WordChar)
    IN  IF /\ e > c
           /\ e + 2 < Len(line)
           /\ line[e + 1] = ":"
           /\ line[e + 2] = " "
           /\ f > e + 2
        THEN Match(line, c, e, c, f)
        ELSE NoMatch

\* Argument.regex.finditer(line) from column c on: the matches, left to
\* right, each search resuming where the previous match ended.
RECURSIVE ArgumentFinditer(_, _)
ArgumentFinditer(line, c) ==
    IF c >= Len(line)
    THEN <<>>
    ELSE LET m == ArgumentMatchAt(line, c)
         IN  IF m.ok
             THEN <<m>> \o ArgumentFinditer(line, m.mend)
             ELSE ArgumentFinditer(line, c + 1)

-----------------------------------------------------------------------------
(* The value classifier: the classes of ampl_types.py, TypeBase.parse_type *)
(* and TypeBase.display_name.                                               *)

Classes ==
    {"TypeBase", "Primitive", "Number", "Symbolic", "DeclaredType", "Set",
     "Objective", "Constraint", "Argument", "Function"}

\* cls.__subclasses__(): the direct subclasses, in the order of definition.
__subclasses__(cls) ==
    CASE cls = "TypeBase"     -> <<"Primitive", "DeclaredType", "Argument", "Function">>
      [] cls = "Primitive"    -> <<"Number", "Symbolic">>
      [] cls = "DeclaredType" -> <<"Set", "Objective", "Constraint">>
      [] OTHER                -> <<>>

\* The classes that have a regex attribute: TypeBase only annotates it.
HasRegex == {"Number", "Symbolic", "Argument", "Function"}

\* Number.regex.match(value): \b([0-9]+(\.[0-9]+)?) at the start of value.
\* The boundary holds at column 0 before a digit; the decimal part is taken
\* when a dot and a digit follow the digits.
NumberMatch(value) ==
    LET e == RunEnd(value, 0, Digit)
        f == RunEnd(value, e + 1, Digit)
    IN  IF e = 0
        THEN NoMatch
        ELSE IF e + 1 < Len(value) /\ value[e + 1] = "." /\ f > e + 1
             THEN Match(value, 0, f, 0, f)
             ELSE Match(value, 0, e, 0, e)

\* Symbolic.regex.match(value): \b([a-zA-Z_][a-zA-Z0-9_]*) at the start of
\* value.
SymbolicMatch(value) ==
    IF Len(value) > 0 /\ value[1] \in IdentStart
    THEN Match(value, 0, RunEnd(value, 0, IdentStart \cup Digit),
               0, RunEnd(value, 0, IdentStart \cup Digit))
    ELSE NoMatch

\* _sub.regex.match(value) for a class that has a regex: a match that starts
\* at column 0 and ends anywhere.
RegexMatch(cls, value) ==
    CASE cls = "Number"   -> NumberMatch(value)
      [] cls = "Symbolic" -> SymbolicMatch(value)
      [] cls = "Argument" -> ArgumentMatchAt(value, 0)
      [] cls = "Function" -> FunctionMatch(value)

\* cls(value)
Instance(cls, value) == [tag |-> "object", cls |-> cls, value |-> value]

NoInstance == [tag |-> "none", cls |-> "", value |-> <<>>]

\* _sub.regex of a class without the attribute.
AttributeError == [tag |-> "AttributeError", cls |-> "", value |-> <<>>]

\* The loop of parse_type over the subclasses subs of cls.
RECURSIVE FirstMatching(_, _, _)
FirstMatching(subs, cls, value) ==
    IF subs = <<>>
    THEN Instance(cls, value)
    ELSE IF Head(subs) \notin HasRegex
         THEN AttributeError
         ELSE IF RegexMatch(Head(subs), value).ok
              THEN Instance(Head(subs), value)
              ELSE FirstMatching(Tail(subs), cls, value)

\* cls.parse_type(value)
parse_type(cls, value) == FirstMatching(__subclasses__(cls), cls, value)

\* type_name as cls reads it: its own or the nearest inherited one. TypeBase
\* only annotates it, and is never asked: it has subclasses.
type_name(cls) ==
    CASE cls = "Primitive"    -> "primitive"
      [] cls = "Number"       -> "number"
      [] cls = "Symbolic"     -> "symbolic"
      [] cls = "DeclaredType" -> "declared_type"
      [] cls = "Set"          -> "set"
      [] cls = "Objective"    -> "declared_type"
      [] cls = "Constraint"   -> "declared_type"
      [] cls = "Argument"     -> "argument"
      [] cls = "Function"     -> "function"

\* iterable as cls reads it
iterable(cls) == cls = "Set"

\* display_name of an instance of cls
display_name(cls) ==
    IF __subclasses__(cls) # <<>>
    THEN "Any"
    ELSE IF iterable(cls)
         THEN type_name(cls) \o "[]"
         ELSE type_name(cls)

-----------------------------------------------------------------------------
(* The document index: category -> (name -> range).                        *)

Range(linum, b, e) == [line |-> linum, start |-> b, end |-> e]

NoNames == [n \in {} |-> Range(0, 0, 0)]

EmptyTable == [function |-> NoNames, type |-> NoNames, variable |-> NoNames]

Categories == {"function", "type", "variable"}

\* table[category][m.name] = the range of m's capture on line linum, when m
\* is a match; a later assignment to the same key replaces the earlier one.
Record(table, category, linum, m) ==
    IF m.ok
    THEN [table EXCEPT ![category] =
            [n \in (DOMAIN @) \cup {m.name} |->
                IF n = m.name THEN Range(linum, m.start, m.end) ELSE @[n]]]
    ELSE table

\* One line of the scan: every declaration rule is tried on the line.
RecordLine(table, linum, line) ==
    Record(Record(Record(table, "function", linum, FunctionMatch(line)),
                  "type", linum, TypeMatch(line)),
           "variable", linum, VariableMatch(line))

RECURSIVE IndexLines(_, _, _)
IndexLines(lines, i, table) ==
    IF i > Len(lines)
    THEN table
    ELSE IndexLines(lines, i + 1, RecordLine(table, i - 1, lines[i]))

\* parse_document(doc): a fresh table built from all the lines of doc.
parse_document(lines) == IndexLines(lines, 1, EmptyTable)

-----------------------------------------------------------------------------
(* What a handler returns.                                                  *)

None == [tag |-> "None", locs |-> <<>>]

Location(r) == [tag |-> "Location", locs |-> <<r>>]

Locations(rs) == [tag |-> "list", locs |-> rs]

Raised(exception) == [tag |-> exception, locs |-> <<>>]

Hover == [tag |-> "Hover", locs |-> <<>>]

CompletionItems == [tag |-> "CompletionItems", locs |-> <<>>]

\* doc.word_at_position(position): nothing beyond the last line; otherwise
\* the word characters that end at the cursor column followed by those that
\* start at it. A column beyond the line's end slices as the line's end.
word_at_position(lines, linum, character) ==
    IF linum >= Len(lines)
    THEN <<>>
    ELSE LET line == lines[linum + 1]
             col  == IF character > Len(line) THEN Len(line) ELSE character
         IN  Slice(line, RunStart(line, col, WordChar), RunEnd(line, col, WordChar))

\* line.strip()
Strip(line) ==
    LET inner == {k \in 1..Len(line) : line[k] \notin Space}
    IN  IF inner = {}
        THEN <<>>
        ELSE SubSeq(line, CHOOSE k \in inner : \A j \in inner : k <= j,
                          CHOOSE k \in inner : \A j \in inner : k >= j)

\* text.endswith(suffix)
EndsWith(text, suffix) ==
    /\ Len(suffix) <= Len(text)
    /\ SubSeq(text, Len(text) - Len(suffix) + 1, Len(text)) = suffix

HelloDot == <<"h","e","l","l","o",".">>

-----------------------------------------------------------------------------
(* The documents the editor delivers.                                       *)

\* The document being edited, and a second one beside it.
Edited == "file:///a.mod"

Other == "file:///b.mod"

URIS == {Edited, Other}

LinePool ==
    { <<"v","a","r"," ","x">>,
      <<"v","a","r"," ","x","y">>,
      <<"f","u","n","c","t","i","o","n"," ","f","o","(">>,
      <<"x",":"," ","x">>,
      <<"t","y","p","e"," ","A","b","(">>,
      <<"h","e","l","l","o",".">> }

Docs == UNION {[1..n -> LinePool] : n \in 0..MaxLines}

\* The texts of at most one line.
ShortDocs == {t \in Docs : Len(t) <= 1}

\* Lines that try the declaration rules: names that begin with a letter of
\* if, and, or; the three words themselves; names of one, two and three
\* characters.
RulePool ==
    { <<"v","a","r"," ","i","n","d","e","x">>,
      <<"v","a","r"," ","r">>,
      <<"v","a","r"," ","i","f">>,
      <<"v","a","r"," ","a","n","d">>,
      <<"s","e","t"," ","o","r">>,
      <<"v","a","r"," ","x","o","r">>,
      <<"p","a","r","a","m"," ","x">>,
      <<"f","u","n","c","t","i","o","n"," ","f","(">>,
      <<"f","u","n","c","t","i","o","n"," ","f","o","(">>,
      <<"f","u","n","c","t","i","o","n"," ","f","o","o","(">>,
      <<"f","u","n","c","t","i","o","n"," ","F","o","(">> }

\* The one-line texts over RulePool.
RuleDocs == {<<line>> : line \in RulePool}

\* Longest token, in characters, drawn from Alphabet for the classifier.
MaxRaw == 3

\* A digit, the dot, a letter, the underscore and a punctuation mark.
Alphabet == {"4", ".", "f", "_", "!"}

\* Tokens the classifier is asked about beside the short ones.
Examples ==
    { <<"4","2">>, <<"4","2",".","5">>, <<"f","o","o","_","b","a","r">>,
      <<"!","!","!">>, <<"4","2","a","b","c">>, <<"f","o","o","!">> }

Raws == UNION {[1..n -> Alphabet] : n \in 0..MaxRaw} \cup Examples

VARIABLES
    text,         \* uri -> the lines of the workspace's document
    status,       \* uri -> "new", "open" or "closed"
    index_,       \* ls.index_: uri -> table, for the uris that were parsed
    diagnostics,  \* uri -> the diagnostics last published for it
    last,         \* the request being answered, with its answer
    superseded,   \* history: uri -> whether the last open or change replaced
                  \* a table holding a key that the new table has not
    raw,          \* the token handed to the classifier
    parsed,       \* the call made on a class with it, and what it returned
    shown,        \* the display_name read from parsed
    heap,         \* the list objects the settings hold: reference -> elements
    GLOBAL_SETTINGS,     \* AMPLServer.GLOBAL_SETTINGS: key -> reference
    WORKSPACE_SETTINGS,  \* AMPLServer.WORKSPACE_SETTINGS: workspace -> key -> reference
    ran           \* the last run of the tool: its mode and argument vector

\* The language server's documents and index.
serverVars == <<text, status, index_, diagnostics, last, superseded>>

\* The value classifier of ampl_types.py.
classifierVars == <<raw, parsed, shown>>

\* The tool runner of ampl_lsp.py and its class-level settings.
toolVars == <<heap, GLOBAL_SETTINGS, WORKSPACE_SETTINGS, ran>>

vars == <<serverVars, classifierVars, toolVars>>

NoRequest ==
    [kind |-> "none", uri |-> "", line |-> 0, word |-> <<>>, result |-> None]

\* A request of some kind for uri u at a cursor position, and its answer. The
\* cursor is kept as its line and the word it is on.
Answer(kind, u, linum, character, result) ==
    [kind |-> kind, uri |-> u, line |-> linum,
     word |-> word_at_position(text[u], linum, character), result |-> result]

\* No document is open and nothing is parsed; the workspace serves a
\* document that was never opened from its file, which holds some text among
\* docs for the documents among uris.
Start(uris, docs) ==
    /\ text \in {f \in [URIS -> docs \cup {<<>>}] : \A u \in URIS \ uris : f[u] = <<>>}
    /\ status = [u \in URIS |-> "new"]
    /\ index_ = [u \in {} |-> EmptyTable]
    /\ diagnostics = [u \in URIS |-> <<>>]
    /\ last = NoRequest
    /\ superseded = [u \in URIS |-> FALSE]

\* No call was made on a class.
NoCall == [call |-> "none", receiver |-> "", result |-> NoInstance]

\* Nothing was classified.
ClassifierIdle ==
    /\ raw = <<>>
    /\ parsed = NoCall
    /\ shown = ""

\* {}: a dict without keys.
EmptyDict == [k \in {} |-> 0]

\* No run of the tool is under way.
NoRun == [mode |-> "none", argv |-> <<>>]

\* The class-level settings as the class body leaves them: both empty.
ToolIdle ==
    /\ heap = <<>>
    /\ GLOBAL_SETTINGS = EmptyDict
    /\ WORKSPACE_SETTINGS = EmptyDict
    /\ ran = NoRun

Init == Start({Edited}, ShortDocs) /\ ClassifierIdle /\ ToolIdle

InitStore == Start(URIS, ShortDocs) /\ ClassifierIdle /\ ToolIdle

-----------------------------------------------------------------------------
(* Document lifecycle handlers.                                             *)

\* ls.index_[doc.uri] = parse_document(doc)
Store(u, lines) ==
    [v \in (DOMAIN index_) \cup {u} |->
        IF v = u THEN parse_document(lines) ELSE index_[v]]

\* Whether the table held for u has a key that table has not.
Supersedes(u, table) ==
    /\ u \in DOMAIN index_
    /\ \E category \in Categories :
          (DOMAIN index_[u][category]) \ (DOMAIN table[category]) # {}

\* textDocument/didOpen: the workspace holds the delivered text, which is
\* parsed.
did_open(u, t) ==
    /\ last = NoRequest
    /\ status[u] # "open"
    /\ text' = [text EXCEPT ![u] = t]
    /\ status' = [status EXCEPT ![u] = "open"]
    /\ index_' = Store(u, t)
    /\ superseded' = [superseded EXCEPT ![u] = Supersedes(u, index_'[u])]
    /\ UNCHANGED <<diagnostics, last, classifierVars, toolVars>>

\* did_change that leaves the document unparsed: the table stays as it was.
did_change_unparsed(u, t) ==
    /\ last = NoRequest
    /\ status[u] = "open"
    /\ text' = [text EXCEPT ![u] = t]
    /\ superseded' = [superseded EXCEPT ![u] = FALSE]
    /\ UNCHANGED <<status, index_, diagnostics, last, classifierVars, toolVars>>

\* did_change that parses into the table already held: the keys of the old
\* text stay unless the new text declares them again.
did_change_merged(u, t) ==
    /\ last = NoRequest
    /\ status[u] = "open"
    /\ text' = [text EXCEPT ![u] = t]
    /\ index_' = [index_ EXCEPT ![u] = IndexLines(t, 1, @)]
    /\ superseded' = [superseded EXCEPT ![u] = Supersedes(u, index_'[u])]
    /\ UNCHANGED <<status, diagnostics, last, classifierVars, toolVars>>

\* did_change that stores the table when only the first line of the new text
\* has been scanned: a partially filled new table.
did_change_partial(u, t) ==
    /\ last = NoRequest
    /\ status[u] = "open"
    /\ text' = [text EXCEPT ![u] = t]
    /\ index_' = Store(u, IF t = <<>> THEN t ELSE <<t[1]>>)
    /\ superseded' = [superseded EXCEPT ![u] = Supersedes(u, index_'[u])]
    /\ UNCHANGED <<status, diagnostics, last, classifierVars, toolVars>>

\* textDocument/didChange: the workspace holds the new full text, which is
\* parsed.
did_change(u, t) ==
    /\ last = NoRequest
    /\ status[u] = "open"
    /\ text' = [text EXCEPT ![u] = t]
    /\ index_' = Store(u, t)
    /\ superseded' = [superseded EXCEPT ![u] = Supersedes(u, index_'[u])]
    /\ UNCHANGED <<status, diagnostics, last, classifierVars, toolVars>>

\* textDocument/didClose: empty diagnostics are published for the document;
\* nothing else is touched. The workspace serves a closed document from its
\* file, taken here to hold the text as it was last delivered.
did_close(u) ==
    /\ last = NoRequest
    /\ status[u] = "open"
    /\ status' = [status EXCEPT ![u] = "closed"]
    /\ diagnostics' = [diagnostics EXCEPT ![u] = <<>>]
    /\ UNCHANGED <<text, index_, last, superseded, classifierVars, toolVars>>

-----------------------------------------------------------------------------
(* Query handlers: what each returns for a uri and a cursor position.       *)

\* goto_definition that takes the word's range from whichever category holds
\* it.
goto_definition_any_category(u, linum, character) ==
    IF u \notin DOMAIN index_
    THEN None
    ELSE LET word == word_at_position(text[u], linum, character)
             holders == {c \in Categories : word \in DOMAIN index_[u][c]}
         IN  IF holders # {}
             THEN Location(index_[u][CHOOSE c \in holders : TRUE][word])
             ELSE None

\* goto_definition
goto_definition(u, linum, character) ==
    IF u \notin DOMAIN index_
    THEN None
    ELSE LET word == word_at_position(text[u], linum, character)
         IN  IF word \in DOMAIN index_[u]["variable"]
             THEN Location(index_[u]["variable"][word])
             ELSE None

\* The first match of matches whose name group is word, as a location on
\* line linum that spans the whole match; None when there is none.
RECURSIVE FirstNamed(_, _, _)
FirstNamed(matches, word, linum) ==
    IF matches = <<>>
    THEN None
    ELSE IF Head(matches).name = word
         THEN Location(Range(linum, Head(matches).mstart, Head(matches).mend))
         ELSE FirstNamed(Tail(matches), word, linum)

\* goto_declaration that scans the lines of the whole document for the pair,
\* not the cursor's line alone.
goto_declaration_all_lines(u, linum, character) ==
    IF u \notin DOMAIN index_
    THEN None
    ELSE LET word == word_at_position(text[u], linum, character)
             found == {i \in 1..Len(text[u]) :
                          FirstNamed(ArgumentFinditer(text[u][i], 0), word, i - 1) # None}
         IN  IF found = {}
             THEN None
             ELSE LET i == CHOOSE j \in found : \A k \in found : j <= k
                  IN  FirstNamed(ArgumentFinditer(text[u][i], 0), word, i - 1)

\* goto_declaration
goto_declaration(u, linum, character) ==
    IF u \notin DOMAIN index_
    THEN None
    ELSE LET line == IF linum < Len(text[u]) THEN text[u][linum + 1] ELSE <<>>
             word == word_at_position(text[u], linum, character)
         IN  FirstNamed(ArgumentFinditer(line, 0), word, linum)

\* goto_implementation that reads the variable category.
goto_implementation_variable(u, linum, character) ==
    IF u \notin DOMAIN index_
    THEN None
    ELSE LET word == word_at_position(text[u], linum, character)
         IN  IF word \in DOMAIN index_[u]["variable"]
             THEN Location(index_[u]["variable"][word])
             ELSE None

\* goto_implementation
goto_implementation(u, linum, character) ==
    IF u \notin DOMAIN index_
    THEN None
    ELSE LET word == word_at_position(text[u], linum, character)
         IN  IF word \in DOMAIN index_[u]["function"]
             THEN Location(index_[u]["function"][word])
             ELSE None

\* \b at column c of line: exactly one of the characters on its two sides
\* is a word character.
WordBoundary(line, c) ==
    (c > 0 /\ line[c] \in WordChar) # (c < Len(line) /\ line[c + 1] \in WordChar)

\* The pattern without its word boundaries: {word} tried at column c.
ReferenceMatchAtUnbounded(line, c, word) ==
    MatchesAt(line, c, Lit(word))

\* \b{word}\b tried at column c.
ReferenceMatchAt(line, c, word) ==
    /\ MatchesAt(line, c, Lit(word))
    /\ WordBoundary(line, c)
    /\ WordBoundary(line, c + Len(word))

\* re.finditer(f"\\b{word}\\b", line) from column c on, as ranges on line
\* linum. word is a key of the index here, so it is not empty.
RECURSIVE ReferenceFinditer(_, _, _, _)
ReferenceFinditer(line, c, word, linum) ==
    IF c + Len(word) > Len(line)
    THEN <<>>
    ELSE IF ReferenceMatchAt(line, c, word)
         THEN <<Range(linum, c, c + Len(word))>>
                  \o ReferenceFinditer(line, c + Len(word), word, linum)
         ELSE ReferenceFinditer(line, c + 1, word, linum)

\* The matches of all the lines from line i on, in the order of the lines.
RECURSIVE ReferenceScan(_, _, _)
ReferenceScan(lines, i, word) ==
    IF i > Len(lines)
    THEN <<>>
    ELSE ReferenceFinditer(lines[i], 0, word, i - 1)
             \o ReferenceScan(lines, i + 1, word)

\* find_references without the guard on a missing index: iterating over
\* None raises.
find_references_unguarded(u, linum, character) ==
    IF u \notin DOMAIN index_
    THEN Raised("TypeError")
    ELSE LET word == word_at_position(text[u], linum, character)
             is_object == \E name \in DOMAIN index_[u] : word \in DOMAIN index_[u][name]
         IN  IF ~is_object
             THEN None
             ELSE Locations(ReferenceScan(text[u], 1, word))

\* find_references
find_references(u, linum, character) ==
    IF u \notin DOMAIN index_
    THEN None
    ELSE LET word == word_at_position(text[u], linum, character)
             is_object == \E name \in DOMAIN index_[u] : word \in DOMAIN index_[u][name]
         IN  IF ~is_object
             THEN None
             ELSE Locations(ReferenceScan(text[u], 1, word))

\* hover: document.lines[params.position.line] is not guarded.
hover(u, linum, character) ==
    IF linum >= Len(text[u])
    THEN Raised("IndexError")
    ELSE IF EndsWith(Strip(text[u][linum + 1]), HelloDot)
         THEN Hover
         ELSE None

\* completions: document.lines[params.position.line] is not guarded.
completions(u, linum, character) ==
    IF linum >= Len(text[u])
    THEN Raised("IndexError")
    ELSE IF EndsWith(Strip(text[u][linum + 1]), HelloDot)
         THEN CompletionItems
         ELSE Locations(<<>>)

-----------------------------------------------------------------------------
(* The requests. The server handles one message at a time: a request is     *)
(* answered by its handler, which changes nothing, and the answer is sent   *)
(* before the next message is read.                                         *)

DefinitionRequest(u, linum, character) ==
    /\ last = NoRequest
    /\ last' = Answer("definition", u, linum, character,
                      goto_definition(u, linum, character))
    /\ UNCHANGED <<text, status, index_, diagnostics, superseded, classifierVars, toolVars>>

DeclarationRequest(u, linum, character) ==
    /\ last = NoRequest
    /\ last' = Answer("declaration", u, linum, character,
                      goto_declaration(u, linum, character))
    /\ UNCHANGED <<text, status, index_, diagnostics, superseded, classifierVars, toolVars>>

ImplementationRequest(u, linum, character) ==
    /\ last = NoRequest
    /\ last' = Answer("implementation", u, linum, character,
                      goto_implementation(u, linum, character))
    /\ UNCHANGED <<text, status, index_, diagnostics, superseded, classifierVars, toolVars>>

ReferencesRequest(u, linum, character) ==
    /\ last = NoRequest
    /\ last' = Answer("references", u, linum, character,
                      find_references(u, linum, character))
    /\ UNCHANGED <<text, status, index_, diagnostics, superseded, classifierVars, toolVars>>

HoverRequest(u, linum, character) ==
    /\ last = NoRequest
    /\ last' = Answer("hover", u, linum, character,
                      hover(u, linum, character))
    /\ UNCHANGED <<text, status, index_, diagnostics, superseded, classifierVars, toolVars>>

CompletionRequest(u, linum, character) ==
    /\ last = NoRequest
    /\ last' = Answer("completion", u, linum, character,
                      completions(u, linum, character))
    /\ UNCHANGED <<text, status, index_, diagnostics, superseded, classifierVars, toolVars>>

\* The answer goes to the client.
Respond ==
    /\ last # NoRequest
    /\ last' = NoRequest
    /\ UNCHANGED <<text, status, index_, diagnostics, superseded, classifierVars, toolVars>>

\* One message handled, for a document among uris whose text is among docs.
Step(uris, docs) ==
    \/ Respond
    \/ \E u \in uris :
          \/ \E t \in docs : did_open(u, t)
          \/ \E t \in docs : did_change(u, t)
          \/ did_close(u)
          \/ \E linum \in 0..MaxLines, character \in 0..MaxCol :
                \/ DefinitionRequest(u, linum, character)
                \/ DeclarationRequest(u, linum, character)
                \/ ImplementationRequest(u, linum, character)
                \/ ReferencesRequest(u, linum, character)
                \/ HoverRequest(u, linum, character)
                \/ CompletionRequest(u, linum, character)

\* One document, every text.
Next == Step({Edited}, Docs)

Spec == Init /\ [][Next]_vars

\* Several documents side by side, short texts.
NextStore == Step(URIS, ShortDocs)

SpecStore == InitStore /\ [][NextStore]_vars

\* One document, the texts that try the rules.
InitRules == Start({Edited}, RuleDocs) /\ ClassifierIdle /\ ToolIdle

NextRules == Step({Edited}, RuleDocs)

SpecRules == InitRules /\ [][NextRules]_vars

-----------------------------------------------------------------------------
(* The classifier at work on one token.                                     *)

\* cls.parse_type(raw)
Classify(cls) ==
    /\ parsed = NoCall
    /\ parsed' = [call |-> "parse_type", receiver |-> cls,
                  result |-> parse_type(cls, raw)]
    /\ UNCHANGED <<raw, shown, serverVars, toolVars>>

\* cls(raw)
Construct(cls) ==
    /\ parsed = NoCall
    /\ parsed' = [call |-> "__init__", receiver |-> cls,
                  result |-> Instance(cls, raw)]
    /\ UNCHANGED <<raw, shown, serverVars, toolVars>>

\* parsed.display_name
Display ==
    /\ parsed.result.tag = "object"
    /\ shown = ""
    /\ shown' = display_name(parsed.result.cls)
    /\ UNCHANGED <<raw, parsed, serverVars, toolVars>>

\* Some token is there to classify; the server is not involved.
InitClassify ==
    /\ Start({}, {})
    /\ raw \in Raws
    /\ parsed = NoCall
    /\ shown = ""
    /\ ToolIdle

NextClassify ==
    \/ \E cls \in Classes : Classify(cls)
    \/ \E cls \in Classes : Construct(cls)
    \/ Display

SpecClassify == InitClassify /\ [][NextClassify]_vars

-----------------------------------------------------------------------------
(* The tool runner of AMPLServer (src/bundled/tool/ampl_lsp.py) and the     *)
(* class-level settings it reads. A list is an object on the heap, and a    *)
(* settings dict maps each of its list-valued keys to a reference, so that  *)
(* two dicts can hold the same list and += changes it for both. The other   *)
(* values of the settings are strings, which nothing can change in place.   *)

ListKeys == {"path", "interpreter", "args"}

\* sys.executable
sys_executable == "python"

\* self.module and self.tool_args as server.py constructs LSP_SERVER
module == "ampl-lsp"

tool_args == <<>>

\* os.getcwd()
cwd == "/cwd"

\* utils.is_current_interpreter(executable)
is_current_interpreter(executable) == executable = sys_executable

\* What the client sends as globalSettings: any of the list-valued keys.
GlobalSettingsSent ==
    { EmptyDict,
      [path |-> <<"ampl">>],
      [args |-> <<"-v">>],
      [path |-> <<>>, interpreter |-> <<"other">>],
      [path |-> <<"ampl">>, interpreter |-> <<"python">>, args |-> <<"-v">>] }

\* What the client sends as settings: nothing, or the settings of the
\* workspace /ws.
SettingsSent ==
    {<<>>} \cup
    { <<[workspace |-> "/ws", path |-> p, interpreter |-> i, args |-> a]>> :
        p \in {<<>>, <<"ampl">>}, i \in {<<>>, <<"python">>, <<"other">>},
        a \in {<<>>, <<"-v">>} }

\* The documents the tool is run on: path, the directories above it, and
\* whether the uri is that of a notebook cell.
Documents ==
    { [path |-> "/ws/a.mod",  parents |-> {"/ws"},  cell |-> FALSE],
      [path |-> "/cwd/b.mod", parents |-> {"/cwd"}, cell |-> FALSE],
      [path |-> "/tmp/c.mod", parents |-> {"/tmp"}, cell |-> FALSE],
      [path |-> "/ws/n.ipynb", parents |-> {"/ws"}, cell |-> TRUE] }

\* extra_args
ExtraArgs == {<<>>, <<"-x">>}

\* A new list on the heap h.
Alloc(h, elements) == [heap |-> Append(h, elements), ref |-> Len(h) + 1]

\* One key of a dict literal or of dict.update: a new list for sent[key],
\* when sent has the key.
Put(st, key, sent) ==
    IF key \in DOMAIN sent
    THEN [heap |-> Append(st.heap, sent[key]),
          dict |-> (key :> (Len(st.heap) + 1)) @@ st.dict]
    ELSE st

\* The list-valued keys of sent, as new lists on h, over the dict d.
Update(h, d, sent) ==
    Put(Put(Put([heap |-> h, dict |-> d], "path", sent), "interpreter", sent),
        "args", sent)

\* The default of _ref.get(key, default) in get_global_defaults.
Default(key) ==
    CASE key = "path"        -> <<>>
      [] key = "interpreter" -> <<sys_executable>>
      [] key = "args"        -> <<>>

\* _ref.get(key, default), _ref being GLOBAL_SETTINGS: the list it holds,
\* itself, or a new list.
Get(h, _ref, key) ==
    IF key \in DOMAIN _ref
    THEN [heap |-> h, ref |-> _ref[key]]
    ELSE Alloc(h, Default(key))

\* get_global_defaults()
get_global_defaults(h, _ref) ==
    LET p == Get(h, _ref, "path")
        i == Get(p.heap, _ref, "interpreter")
        a == Get(i.heap, _ref, "args")
    IN  [heap |-> a.heap,
         dict |-> [path |-> p.ref, interpreter |-> i.ref, args |-> a.ref]]

\* get_document_key(document): the workspace above the document, if any.
get_document_key(document) ==
    IF \E key \in DOMAIN WORKSPACE_SETTINGS : key \in document.parents
    THEN CHOOSE key \in DOMAIN WORKSPACE_SETTINGS : key \in document.parents
    ELSE "None"

\* get_settings_by_document(document) for a document with a path: the dict
\* WORKSPACE_SETTINGS holds for its workspace, itself, or a new dict over the
\* global defaults.
get_settings_by_document(h, document) ==
    IF get_document_key(document) = "None"
    THEN get_global_defaults(h, GLOBAL_SETTINGS)
    ELSE [heap |-> h, dict |-> WORKSPACE_SETTINGS[get_document_key(document)]]

\* copy.copy(d): a new dict over the same lists.
shallow_copy(h, d) == [heap |-> h, dict |-> d]

\* copy.deepcopy(d): a new dict over new lists with the same elements.
deepcopy(h, d) ==
    [heap |-> h \o <<h[d.path], h[d.interpreter], h[d.args]>>,
     dict |-> [path |-> Len(h) + 1, interpreter |-> Len(h) + 2,
               args |-> Len(h) + 3]]

\* The choice of the run mode and the list argv starts as: the path list of
\* settings itself, or a new list [self.module].
Mode(h, settings) ==
    IF h[settings.path] # <<>>
    THEN "path"
    ELSE IF /\ h[settings.interpreter] # <<>>
            /\ ~is_current_interpreter(h[settings.interpreter][1])
         THEN "rpc"
         ELSE "module"

StartArgv(h, settings) ==
    IF Mode(h, settings) = "path"
    THEN [heap |-> h, ref |-> settings.path]
    ELSE Alloc(h, <<module>>)

\* argv += more, in place.
Extend(st, more) ==
    [heap |-> [st.heap EXCEPT ![st.ref] = @ \o more], ref |-> st.ref]

\* The run ends and its locals are gone: of the heap h the lists that the
\* settings can hold remain, those that were there before the call.
Stored(h) == SubSeq(h, 1, Len(heap))

\* initialize: the client's globalSettings update GLOBAL_SETTINGS, then
\* update_workspace_settings(settings) stores the dict of each workspace
\* sent, or for none sent the dict of the global defaults under the current
\* directory. The client initializes the server once.
initialize(globalSettings, settings) ==
    /\ WORKSPACE_SETTINGS = EmptyDict
    /\ ran = NoRun
    /\ LET g == Update(heap, GLOBAL_SETTINGS, globalSettings)
       IN  /\ GLOBAL_SETTINGS' = g.dict
           /\ IF settings = <<>>
              THEN /\ heap' = get_global_defaults(g.heap, g.dict).heap
                   /\ WORKSPACE_SETTINGS' =
                          (cwd :> get_global_defaults(g.heap, g.dict).dict)
              ELSE LET w == Update(g.heap, EmptyDict, settings[1])
                   IN  /\ heap' = w.heap
                       /\ WORKSPACE_SETTINGS' = (settings[1].workspace :> w.dict)
    /\ UNCHANGED <<ran, serverVars, classifierVars>>

\* run_tool_on_document(document, use_stdin, extra_args)
run_tool_on_document(document, use_stdin, extra_args) ==
    /\ ran = NoRun
    /\ IF document.cell
       THEN /\ ran' = [mode |-> "None", argv |-> <<>>]
            /\ heap' = heap
       ELSE LET got      == get_settings_by_document(heap, document)
                copied   == deepcopy(got.heap, got.dict)
                settings == copied.dict
                argv     == StartArgv(copied.heap, settings)
                built    == Extend(argv,
                                tool_args \o argv.heap[settings.args] \o extra_args
                                    \o (IF use_stdin THEN <<>> ELSE <<document.path>>))
            IN  /\ ran' = [mode |-> Mode(copied.heap, settings),
                           argv |-> built.heap[built.ref]]
                /\ heap' = Stored(built.heap)
    /\ UNCHANGED <<GLOBAL_SETTINGS, WORKSPACE_SETTINGS, serverVars, classifierVars>>

\* run_tool(extra_args): the settings are those of the first workspace;
\* list(...)[0] raises when there is none.
run_tool(extra_args) ==
    /\ ran = NoRun
    /\ IF WORKSPACE_SETTINGS = EmptyDict
       THEN /\ ran' = [mode |-> "IndexError", argv |-> <<>>]
            /\ heap' = heap
       ELSE LET first    == WORKSPACE_SETTINGS[CHOOSE key \in DOMAIN WORKSPACE_SETTINGS : TRUE]
                copied   == deepcopy(heap, first)
                settings == copied.dict
                argv     == StartArgv(copied.heap, settings)
                built    == Extend(argv, extra_args)
            IN  /\ ran' = [mode |-> Mode(copied.heap, settings),
                           argv |-> built.heap[built.ref]]
                /\ heap' = Stored(built.heap)
    /\ UNCHANGED <<GLOBAL_SETTINGS, WORKSPACE_SETTINGS, serverVars, classifierVars>>

\* The run returns to its caller.
Return ==
    /\ ran # NoRun
    /\ ran' = NoRun
    /\ UNCHANGED <<heap, GLOBAL_SETTINGS, WORKSPACE_SETTINGS, serverVars, classifierVars>>

\* The server before initialize, no document delivered.
InitTool == Start({}, {}) /\ ClassifierIdle /\ ToolIdle

NextTool ==
    \/ \E globalSettings \in GlobalSettingsSent, settings \in SettingsSent :
          initialize(globalSettings, settings)
    \/ \E document \in Documents, use_stdin \in BOOLEAN, extra_args \in ExtraArgs :
          run_tool_on_document(document, use_stdin, extra_args)
    \/ \E extra_args \in ExtraArgs : run_tool(extra_args)
    \/ Return

SpecTool == InitTool /\ [][NextTool]_vars

-----------------------------------------------------------------------------
(* Properties of the index.                                                 *)

\* The match of category's rule on line.
RuleMatch(category, line) ==
    CASE category = "function" -> FunctionMatch(line)
      [] category = "type"     -> TypeMatch(line)
      [] category = "variable" -> VariableMatch(line)

\* The zero-based numbers of the lines that declare name under category.
DeclaringLines(lines, category, name) ==
    {i \in 0..(Len(lines) - 1) :
        /\ RuleMatch(category, lines[i + 1]).ok
        /\ RuleMatch(category, lines[i + 1]).name = name}

VarX == <<"v","a","r"," ","x">>

\* C1: every entry table[category][name] of a stored index lies on a line of
\* the document that matches the category's rule with that name, and its
\* columns [start, end) hold exactly the name; every line that matches a rule
\* has its name in the table; so a line that matches no rule adds nothing.
\* The one-line text "var x" gives table["variable"]["x"] = line 0, columns
\* 4 to 5, and no other entry.
C1_EntriesSpanDeclaredNames ==
    \A u \in DOMAIN index_ :
        /\ \A category \in Categories :
              /\ \A name \in DOMAIN index_[u][category] :
                    LET r == index_[u][category][name]
                    IN  /\ r.line \in DeclaringLines(text[u], category, name)
                        /\ 0 <= r.start
                        /\ r.start < r.end
                        /\ r.end <= Len(text[u][r.line + 1])
                        /\ Slice(text[u][r.line + 1], r.start, r.end) = name
              /\ \A i \in 1..Len(text[u]) :
                    RuleMatch(category, text[u][i]).ok
                        => RuleMatch(category, text[u][i]).name
                               \in DOMAIN index_[u][category]
        /\ text[u] = <<VarX>> =>
              /\ DOMAIN index_[u]["variable"] = {<<"x">>}
              /\ index_[u]["variable"][<<"x">>] = Range(0, 4, 5)
              /\ DOMAIN index_[u]["function"] = {}
              /\ DOMAIN index_[u]["type"] = {}

\* The text "var x" is indexed, with x at line 0, columns 4 to 5.
C1_Witness ==
    /\ Edited \in DOMAIN index_
    /\ text[Edited] = <<VarX>>
    /\ <<"x">> \in DOMAIN index_[Edited]["variable"]
    /\ index_[Edited]["variable"][<<"x">>] = Range(0, 4, 5)

\* C2: a name declared under a category on several lines has one entry, and
\* the entry points at the last of those lines. (That there is one entry per
\* category and name is the shape of the table: a mapping from names.)
C2_LastDeclarationWins ==
    \A u \in DOMAIN index_ :
        \A category \in Categories :
            \A name \in DOMAIN index_[u][category] :
                /\ DeclaringLines(text[u], category, name) # {}
                /\ \A i \in DeclaringLines(text[u], category, name) :
                      i <= index_[u][category][name].line

\* "var x" on line 0 and again on line 1: the one entry for x is at line 1.
C2_Witness ==
    /\ Edited \in DOMAIN index_
    /\ text[Edited] = <<VarX, VarX>>
    /\ DOMAIN index_[Edited]["variable"] = {<<"x">>}
    /\ index_[Edited]["variable"][<<"x">>] = Range(1, 4, 5)

\* C3: the table stored for a uri is the index of the text that the last
\* open or change event for that uri delivered, whatever was stored before
\* and whatever happens to the other uris: a uri has a table exactly when a
\* text was delivered for it, and no key of the table is undeclared in that
\* text.
C3_TableIsIndexOfLatestText ==
    \A u \in URIS :
        /\ u \in DOMAIN index_ <=> status[u] # "new"
        /\ u \in DOMAIN index_ =>
              /\ index_[u] = parse_document(text[u])
              /\ \A category \in Categories :
                    \A name \in DOMAIN index_[u][category] :
                        DeclaringLines(text[u], category, name) # {}

\* A change has replaced a table that held a key the new text does not
\* declare, while the other document keeps a table of its own.
C3_Witness ==
    /\ superseded[Edited]
    /\ status[Edited] = "open"
    /\ index_[Edited] = EmptyTable
    /\ Other \in DOMAIN index_
    /\ index_[Other] # EmptyTable

-----------------------------------------------------------------------------
(* Properties of the queries.                                               *)

Navigation == {"definition", "declaration", "implementation", "references"}

\* C4 (as claimed): once a document is closed the store holds no table for
\* its uri, and every navigation query for it returns no result.
C4_ClosedHasNoTable ==
    \A u \in URIS :
        status[u] = "closed" =>
            /\ u \notin DOMAIN index_
            /\ (last.kind \in Navigation /\ last.uri = u) => last.result = None

\* C5: a definition, declaration, implementation or references query for a
\* uri that has no table in the store returns no result and raises nothing,
\* wherever the cursor is.
C5_UnindexedReturnsNothing ==
    (last.kind \in Navigation /\ last.uri \notin DOMAIN index_)
        => last.result = None

\* A references query on x in a document that was never parsed, while the
\* other document has a table that holds x.
C5_Witness ==
    /\ last.kind = "references"
    /\ last.uri = Other
    /\ Other \notin DOMAIN index_
    /\ last.word = <<"x">>
    /\ Edited \in DOMAIN index_
    /\ <<"x">> \in DOMAIN index_[Edited]["variable"]
    /\ last.result = None

\* Whether word stands at column c of line as a whole word: not inside a
\* longer run of word characters.
WholeWordAt(line, c, word) ==
    /\ c + Len(word) <= Len(line)
    /\ Slice(line, c, c + Len(word)) = word
    /\ (c = 0 \/ line[c] \notin WordChar)
    /\ (c + Len(word) = Len(line) \/ line[c + Len(word) + 1] \notin WordChar)

\* The ranges of the whole-word occurrences of word in lines.
Occurrences(lines, word) ==
    UNION { {Range(l, c, c + Len(word)) :
                c \in {d \in 0..Len(lines[l + 1]) : WholeWordAt(lines[l + 1], d, word)}} :
            l \in 0..(Len(lines) - 1) }

\* Range r comes before range q in the document.
Before(r, q) ==
    \/ r.line < q.line
    \/ r.line = q.line /\ r.start < q.start

\* C6: a references query whose cursor word is a key of some category of the
\* document's table returns the whole-word occurrences of the word in the
\* text, each once, by ascending line and then column, the ranges stored for
\* the word among them; a word that is a key of no category gets no result.
C6_ReferencesAreWholeWordOccurrences ==
    (last.kind = "references" /\ last.uri \in DOMAIN index_) =>
        LET u    == last.uri
            locs == last.result.locs
        IN  IF \E category \in Categories : last.word \in DOMAIN index_[u][category]
            THEN /\ last.result.tag = "list"
                 /\ {locs[k] : k \in 1..Len(locs)} = Occurrences(text[u], last.word)
                 /\ \A j, k \in 1..Len(locs) : j < k => Before(locs[j], locs[k])
                 /\ \A category \in Categories :
                       last.word \in DOMAIN index_[u][category]
                           => \E k \in 1..Len(locs) :
                                  locs[k] = index_[u][category][last.word]
            ELSE last.result = None

ArgXX == <<"x",":"," ","x">>

\* References of x in "x: x" / "var x": both occurrences of line 0, then the
\* declaration on line 1.
C6_Witness ==
    /\ last.kind = "references"
    /\ last.uri = Edited
    /\ text[Edited] = <<ArgXX, VarX>>
    /\ last.word = <<"x">>
    /\ last.result = Locations(<<Range(0, 0, 1), Range(0, 3, 4), Range(1, 4, 5)>>)

FunctionFo == <<"f","u","n","c","t","i","o","n"," ","f","o","(">>

C8_ImplementationReadsFunction ==
    (last.kind = "implementation" /\ last.uri \in DOMAIN index_) =>
        LET u == last.uri
        IN  IF last.word \in DOMAIN index_[u]["function"]
            THEN /\ last.result = Location(index_[u]["function"][last.word])
                 /\ LET r == last.result.locs[1]
                     IN  Slice(text[u][r.line + 1], r.start, r.end) = last.word
            ELSE last.result = None

\* Implementation of fo in "function fo(" / "var x": the function's range.
C8_Witness ==
    /\ last.kind = "implementation"
    /\ last.uri = Edited
    /\ text[Edited] = <<FunctionFo, VarX>>
    /\ last.word = <<"f","o">>
    /\ last.result = Location(Range(0, 9, 11))

\* The cursor's line of the request being answered; empty beyond the end.
CursorLine ==
    IF last.line < Len(text[last.uri]) THEN text[last.uri][last.line + 1] ELSE <<>>

\* The places, in the left-to-right matches of the argument pattern on the
\* cursor's line, of the pairs whose name is the cursor word.
NamedPairs ==
    {k \in 1..Len(ArgumentFinditer(CursorLine, 0)) :
        ArgumentFinditer(CursorLine, 0)[k].name = last.word}

FirstNamedPair ==
    ArgumentFinditer(CursorLine, 0)[CHOOSE k \in NamedPairs : \A j \in NamedPairs : k <= j]

\* C9 (as claimed): a declaration query on a parsed document whose cursor
\* word names a name: type pair of the cursor's line returns a range on that
\* line spanning the name; a word that names no pair of that line gets no
\* result.
C9_DeclarationSpansName ==
    (last.kind = "declaration" /\ last.uri \in DOMAIN index_) =>
        IF NamedPairs # {}
        THEN last.result =
                 Location(Range(last.line, FirstNamedPair.start, FirstNamedPair.end))
        ELSE last.result = None

\* C9 (amended): a declaration query on a parsed document whose cursor word
\* names a name: type pair of the cursor's line returns a range on that line
\* spanning the whole pair, from the first column of the name to the end of
\* the type: the name, a colon, a blank and a run of word characters; a word
\* that names no pair of that line gets no result, whatever the other lines
\* hold.
C9_DeclarationSpansPair ==
    (last.kind = "declaration" /\ last.uri \in DOMAIN index_) =>
        IF NamedPairs # {}
        THEN /\ last.result =
                    Location(Range(last.line, FirstNamedPair.mstart, FirstNamedPair.mend))
             /\ LET r == last.result.locs[1]
                     n == Len(last.word)
                 IN  /\ Slice(CursorLine, r.start, r.start + n) = last.word
                     /\ Slice(CursorLine, r.start + n, r.start + n + 2) = <<":", " ">>
                     /\ r.start + n + 2 < r.end
                     /\ r.end <= Len(CursorLine)
                     /\ \A c \in (r.start + n + 2)..(r.end - 1) :
                           CursorLine[c + 1] \in WordChar
                     /\ (r.end = Len(CursorLine) \/ CursorLine[r.end + 1] \notin WordChar)
        ELSE last.result = None

\* Declaration of x with the cursor on line 0, "x: x", of a document whose
\* line 1 is "var x": the pair's range, columns 0 to 4.
C9_Witness ==
    /\ last.kind = "declaration"
    /\ last.uri = Edited
    /\ text[Edited] = <<ArgXX, VarX>>
    /\ last.line = 0
    /\ last.word = <<"x">>
    /\ last.result = Location(Range(0, 0, 4))

\* C10 (as claimed): a query of a handler that reads the cursor's line, with
\* the cursor's line at or beyond the end of the document, raises nothing
\* and returns no result.
C10_BeyondEndIsEmptyLine ==
    (/\ last.kind \in {"declaration", "hover", "completion"}
     /\ last.line >= Len(text[last.uri]))
        => last.result \in {None, Locations(<<>>)}

-----------------------------------------------------------------------------
(* Properties of the declaration rules.                                     *)

LogicalKeywords == { <<"i","f">>, <<"a","n","d">>, <<"o","r">> }

\* The identifier of a line that begins with a declaration keyword, a blank
\* and an identifier: its columns, whatever the identifier is.
KeywordThenIdentifier(line) ==
    LET hits == {k \in 1..Len(DeclarationKeywords) :
                    LET c == Len(DeclarationKeywords[k])
                    IN  /\ MatchesAt(line, 0, DeclarationKeywords[k])
                        /\ c + 1 < Len(line)
                        /\ line[c + 1] \in Space
                        /\ line[c + 2] \in IdentStart}
    IN  IF hits = {}
        THEN NoMatch
        ELSE LET c == Len(DeclarationKeywords[CHOOSE h \in hits : \A g \in hits : h <= g])
             IN  Match(line, c + 1, RunEnd(line, c + 1, IdentStart \cup Digit),
                       0, RunEnd(line, c + 1, IdentStart \cup Digit))

\* C14 (as claimed): on a line of a parsed document that begins with a
\* declaration keyword, a blank and an identifier, the variable rule matches
\* with that identifier as the name, and the table holds it under variable,
\* unless the identifier is if, and or or; only those three are rejected.
C14_OnlyLogicalKeywordsRejected ==
    \A u \in DOMAIN index_ :
        \A i \in 1..Len(text[u]) :
            LET d == KeywordThenIdentifier(text[u][i])
            IN  d.ok =>
                    IF d.name \in LogicalKeywords
                    THEN ~VariableMatch(text[u][i]).ok
                    ELSE /\ VariableMatch(text[u][i]).ok
                         /\ VariableMatch(text[u][i]).name = d.name
                         /\ d.name \in DOMAIN index_[u]["variable"]

FunctionKeyword == <<"f","u","n","c","t","i","o","n"," ">>

\* The identifier of a line that begins "function <identifier>(" with a
\* lowercase first letter, of any length from one character.
FunctionThenIdentifier(line) ==
    LET b == Len(FunctionKeyword)
        e == RunEnd(line, b, WordChar)
    IN  IF /\ MatchesAt(line, 0, Lit(FunctionKeyword))
           /\ b < Len(line)
           /\ line[b + 1] \in Lower
           /\ e < Len(line)
           /\ line[e + 1] = "("
        THEN Match(line, b, e, 0, e + 1)
        ELSE NoMatch

\* C15 (as claimed): on a line of a parsed document that begins
\* "function <identifier>(", the identifier starting with a lowercase letter
\* and of any length, the function rule matches with that identifier as the
\* name and the table holds it under function; "function foo(" gives
\* table["function"]["foo"].
C15_FunctionRuleAnyLength ==
    \A u \in DOMAIN index_ :
        \A i \in 1..Len(text[u]) :
            LET d == FunctionThenIdentifier(text[u][i])
            IN  d.ok =>
                    /\ FunctionMatch(text[u][i]).ok
                    /\ FunctionMatch(text[u][i]).name = d.name
                    /\ d.name \in DOMAIN index_[u]["function"]

-----------------------------------------------------------------------------
(* Properties of the interleaving of events and queries.                    *)

\* What a query of some kind for the word at the cursor returns when it is
\* resolved in table, for the document u.
ResolveIn(table, kind, u, word) ==
    CASE kind = "definition" ->
            IF word \in DOMAIN table["variable"]
            THEN Location(table["variable"][word]) ELSE None
      [] kind = "implementation" ->
            IF word \in DOMAIN table["function"]
            THEN Location(table["function"][word]) ELSE None
      [] kind = "references" ->
            IF \E category \in Categories : word \in DOMAIN table[category]
            THEN Locations(ReferenceScan(text[u], 1, word)) ELSE None

\* C13: in every step of every interleaving of open, change, close and query
\* events, the table of a uri is replaced only as a whole, by the complete
\* index of the text just delivered for it, and the tables of the other uris
\* stay as they are; a query changes no table and is answered as the complete
\* index of the text last delivered before it answers it: the previous text
\* when the query comes before the change, the new text when it comes after,
\* never part of a re-index.
C13_QueriesSeeWholeTables ==
    [][ /\ \A u \in DOMAIN index_' :
              \/ u \in DOMAIN index_ /\ index_'[u] = index_[u] /\ text'[u] = text[u]
              \/ index_'[u] = parse_document(text'[u])
        /\ (last = NoRequest /\ last' # NoRequest) =>
              /\ index_' = index_
              /\ text' = text
              /\ (last'.kind \in {"definition", "implementation", "references"}
                    /\ last'.uri \in DOMAIN index_) =>
                    last'.result =
                        ResolveIn(parse_document(text[last'.uri]), last'.kind,
                                  last'.uri, last'.word)
      ]_vars

VarXY == <<"v","a","r"," ","x","y">>

\* A definition query on xy, declared on the second line of the new text,
\* answered after a change replaced a table that held other keys.
C13_Witness ==
    /\ superseded[Edited]
    /\ status[Edited] = "open"
    /\ text[Edited] = <<VarX, VarXY>>
    /\ last.kind = "definition"
    /\ last.uri = Edited
    /\ last.word = <<"x","y">>
    /\ last.result = Location(Range(1, 4, 6))

-----------------------------------------------------------------------------
(* Properties of the classifier.                                            *)

\* The classes that dispatch to subclasses.
Dispatching == {cls \in Classes : __subclasses__(cls) # <<>>}

\* The whole of value is [0-9]+(\.[0-9]+)?
WholeNumber(value) ==
    \/ Len(value) > 0 /\ \A k \in 1..Len(value) : value[k] \in Digit
    \/ \E d \in 2..(Len(value) - 1) :
          /\ value[d] = "."
          /\ \A k \in (1..Len(value)) \ {d} : value[k] \in Digit

\* The whole of value is [a-zA-Z_][a-zA-Z0-9_]*
WholeIdentifier(value) ==
    /\ Len(value) > 0
    /\ value[1] \in IdentStart
    /\ \A k \in 2..Len(value) : value[k] \in IdentStart \cup Digit

\* C11 (as claimed): parse_type, called on a class that dispatches to
\* subclasses, returns an object carrying the raw text for every raw string
\* and raises nothing; the object is a Primitive when the raw text starts
\* neither a number nor an identifier.
C11_ClassificationIsTotal ==
    (parsed.call = "parse_type" /\ parsed.receiver \in Dispatching) =>
        /\ parsed.result.tag = "object"
        /\ parsed.result.value = raw
        /\ (~NumberMatch(raw).ok /\ ~SymbolicMatch(raw).ok)
              => parsed.result.cls = "Primitive"

\* C12 (as claimed): Primitive.parse_type returns a Number exactly when the
\* whole of the raw text is a numeric literal, otherwise a Symbolic exactly
\* when the whole of it is an identifier, otherwise a Primitive; a token of
\* which only a prefix matches a pattern is not given that pattern's kind.
C12_KindsMatchWholeToken ==
    (parsed.call = "parse_type" /\ parsed.receiver = "Primitive") =>
        parsed.result =
            Instance(IF WholeNumber(raw) THEN "Number"
                     ELSE IF WholeIdentifier(raw) THEN "Symbolic"
                     ELSE "Primitive",
                     raw)

\* The name of the kind itself.
KindName(cls) ==
    CASE cls = "Number"     -> "number"
      [] cls = "Symbolic"   -> "symbolic"
      [] cls = "Set"        -> "set"
      [] cls = "Objective"  -> "objective"
      [] cls = "Constraint" -> "constraint"
      [] cls = "Argument"   -> "argument"
      [] cls = "Function"   -> "function"

\* C16 (as claimed): the display_name of a value is "Any" exactly when its
\* kind is a base kind, one that has kinds below it; otherwise it is the
\* kind's own name, followed by "[]" exactly when the kind is a collection:
\* Set shows "set[]", and Number, Symbolic, Objective and Constraint each show
\* their own name without the suffix.
C16_DisplayNameIsKindName ==
    shown # "" =>
        IF parsed.result.cls \in Dispatching
        THEN shown = "Any"
        ELSE IF parsed.result.cls = "Set"
             THEN shown = "set[]"
             ELSE shown = KindName(parsed.result.cls)

-----------------------------------------------------------------------------
(* Properties of the tool runner.                                           *)

\* Every value the class-level settings hold: each list by its elements.
StoredValues ==
    [GLOBAL_SETTINGS |->
        [key \in DOMAIN GLOBAL_SETTINGS |-> heap[GLOBAL_SETTINGS[key]]],
     WORKSPACE_SETTINGS |->
        [w \in DOMAIN WORKSPACE_SETTINGS |->
            [key \in ListKeys |-> heap[WORKSPACE_SETTINGS[w][key]]]]]

\* C17: a call of run_tool_on_document or run_tool, in whichever mode and
\* with whichever extra_args, leaves WORKSPACE_SETTINGS and GLOBAL_SETTINGS
\* as they were: the same dicts over the same lists, and every list, path
\* and args among them, with the elements it had before the call; so it is
\* after any sequence of calls.
C17_RunsLeaveSettingsAlone ==
    [][ (ran = NoRun /\ ran' # NoRun) =>
            /\ GLOBAL_SETTINGS' = GLOBAL_SETTINGS
            /\ WORKSPACE_SETTINGS' = WORKSPACE_SETTINGS
            /\ StoredValues' = StoredValues
      ]_vars

\* A run in path mode on a document of the workspace /ws, whose argument
\* vector grew from the path list by the args, the extra argument and the
\* document, while the workspace's path list is as it was sent.
C17_Witness ==
    /\ ran.mode = "path"
    /\ ran.argv = <<"ampl", "-v", "-x", "/ws/a.mod">>
    /\ "/ws" \in DOMAIN WORKSPACE_SETTINGS
    /\ heap[WORKSPACE_SETTINGS["/ws"].path] = <<"ampl">>
    /\ heap[WORKSPACE_SETTINGS["/ws"].args] = <<"-v">>

====
